---- MODULE Spec2Model ----
(***************************************************************************)
(* Model of backend/main.py, the cough classification inference service.   *)
(*                                                                         *)
(* Spec         the service: startup (load_models), the /health endpoint   *)
(*              and two /predict requests whose steps interleave over a    *)
(*              shared temporary directory and the shared globals.         *)
(* SpecExtract  extract_audio_features run step by step on one decoded     *)
(*              waveform (pad/trim, then the ten transforms in order).     *)
(* SpecLabel    the label / confidence derivation of predict_cough applied *)
(*              to one classifier output.                                  *)
(*                                                                         *)
(* Representation.  Python None is the record None.  A numpy array is a    *)
(* record [values |-> <<...>>].  A probability is an integer number of     *)
(* 1/PScale units; confidence_score is an integer number of hundredths of  *)
(* a percent (88.0 is 8800), so round(x, 2) is a real rounding step.       *)
(* A feature value is not a number but the record naming the transform,    *)
(* the statistic, the coefficient and the waveform it was computed from.   *)
(***************************************************************************)
EXTENDS Integers, Sequences, FiniteSets, TLC

VARIABLES
    model, scaler, config,   \* the module globals (lines 39-41)
    started,                 \* TRUE once startup_event has run
    files,                   \* the temporary directory: name -> file
    pc,                      \* per request: position in predict_cough
    request,                 \* per request: the PredictionRequest and its I/O fate
    frame,                   \* per request: the local variables of predict_cough
    response,                \* per request: the HTTP response, None until sent
    health_response,         \* the last answer of GET /health, None before
    call,                    \* SpecExtract / SpecLabel: the arguments
    ret                      \* SpecExtract / SpecLabel: locals and return value

vars == <<model, scaler, config, started, files, pc, request, frame,
          response, health_response, call, ret>>

None == [none |-> TRUE]

----------------------------------------------------------------------------
(* Sizes *)

n_mfcc == 13
default_target_duration == 5
default_sr == 22050

\* the two request slots whose steps interleave.  predict_cough is a
\* coroutine without an await, so one event loop runs a request to its end;
\* the statement-level interleaving covers that schedule and also several
\* server workers sharing one temporary directory.
Requests == {"r1", "r2"}
\* one temporary name per request is always free (the real name space is
\* eight random characters), so NamedTemporaryFile never runs out of names
TempNames == 1..Cardinality(Requests)

\* probabilities are multiples of 1/PScale
PScale == 20000
\* SpecExtract: longest decoded waveform, largest duration and sample rate
MaxLen == 3
MaxDuration == 2
MaxSr == 2
\* sample values; 0 is the padding value
Samples == {0, 1}

----------------------------------------------------------------------------
(* extract_audio_features *)

\* the transforms in the order the function calls them
Stages == <<"mfcc", "spectral_centroid", "spectral_bandwidth",
            "spectral_rolloff", "zcr", "chroma", "spectral_contrast",
            "tonnetz", "rms", "tempo">>

StageSet == {Stages[i] : i \in 1..Len(Stages)}

Feat(f, s, c, w) == [feature |-> f, stat |-> s, coef |-> c, of |-> w]

\* int(target_duration * sr)
TargetLength(target_duration, sr) == target_duration * sr

\* variant: the padding goes in front, np.pad(audio, (n - len(audio), 0))
PadLeft(audio, n) == [i \in 1..(n - Len(audio)) |-> 0] \o audio

\* np.pad(audio, (0, n - len(audio)), mode='constant')
PadRight(audio, n) == audio \o [i \in 1..(n - Len(audio)) |-> 0]

\* audio[:n]
Prefix(audio, n) == SubSeq(audio, 1, IF n < Len(audio) THEN n ELSE Len(audio))

\* lines 91-95: pad or trim to the fixed duration
PadOrTrim(audio, target_length) ==
    IF Len(audio) < target_length
    THEN PadRight(audio, target_length)
    ELSE Prefix(audio, target_length)

\* np.<stat>(mfcc, axis=1).tolist(): one value per coefficient
MfccStat(s, w) == [i \in 1..n_mfcc |-> Feat("mfcc", s, i, w)]

\* variant: std appended before mean
Stat4StdFirst(f, w) ==
    <<Feat(f, "std", 0, w), Feat(f, "mean", 0, w),
      Feat(f, "min", 0, w), Feat(f, "max", 0, w)>>

\* the four appends of one transform: mean, std, min, max over the matrix
Stat4(f, w) ==
    <<Feat(f, "mean", 0, w), Feat(f, "std", 0, w),
      Feat(f, "min", 0, w), Feat(f, "max", 0, w)>>

\* what one transform section appends to the features list
Block(stage, w) ==
    IF stage = "mfcc"
    THEN MfccStat("mean", w) \o MfccStat("std", w)
         \o MfccStat("min", w) \o MfccStat("max", w)
    ELSE IF stage = "tempo"
    THEN <<Feat("tempo", "value", 0, w)>>
    ELSE Stat4(stage, w)

\* the body of the try block from line 97 on: run the transforms from the
\* i-th on; a transform that raises sends control to the except clause,
\* which returns None
RECURSIVE RunStages(_, _, _, _)
RunStages(i, features, fail, w) ==
    IF i > Len(Stages) THEN [values |-> features]
    ELSE IF fail = Stages[i] THEN None
    ELSE RunStages(i + 1, features \o Block(Stages[i], w), fail, w)

\* extract_audio_features(audio_path) as predict_cough calls it, on the
\* file found at audio_path.  The normalised waveform is named by the
\* signal it came from and its length.
extract_audio_features(file, target_duration, sr) ==
    IF ~file.exists \/ file.data = <<>> THEN None
    ELSE IF file.data[1].fail = "load" THEN None
    ELSE RunStages(1, <<>>, file.data[1].fail,
                   [sig |-> file.data[1].sig,
                    len |-> TargetLength(target_duration, sr)])

----------------------------------------------------------------------------
(* Artifacts *)

\* the number of values extract_audio_features returns
ExtractorWidth == Len(RunStages(1, <<>>, "none", 0).values)

\* the probabilities 0.88 and 0.12
HighP == (PScale * 88) \div 100
LowP == PScale - HighP

\* str(k) for a class index
Str(k) == <<"0", "1", "2">>[k + 1]

Sigs == {0, 1}

\* what joblib.load / json.load can find on disk
ModelArtifacts ==
    {[n_features_in |-> n,
      decide |-> [s \in Sigs |-> s],
      proba |-> [s \in Sigs |-> IF s = 0 THEN <<HighP, LowP>>
                                          ELSE <<LowP, HighP>>]]
        : n \in {ExtractorWidth, ExtractorWidth - 1}}

ScalerArtifacts ==
    {[n_features_in |-> n] : n \in {ExtractorWidth, ExtractorWidth - 1}}

ConfigArtifacts ==
    {[label_mapping |-> [s \in {"0", "1"} |-> IF s = "0" THEN "dry" ELSE "wet"]],
     [label_mapping |-> [s \in {"0"} |-> "dry"]]}

Disks ==
    [model : ModelArtifacts \cup {None},
     scaler : ScalerArtifacts \cup {None},
     config : ConfigArtifacts \cup {None}]

\* load_models: the three loads run in order inside one try block, so the
\* first artifact that fails to load leaves the later globals untouched
load_models(disk, old) ==
    IF disk.model = None
    THEN [model |-> old.model, scaler |-> old.scaler, config |-> old.config,
          success |-> FALSE]
    ELSE IF disk.scaler = None
    THEN [model |-> disk.model, scaler |-> old.scaler, config |-> old.config,
          success |-> FALSE]
    ELSE IF disk.config = None
    THEN [model |-> disk.model, scaler |-> disk.scaler, config |-> old.config,
          success |-> FALSE]
    ELSE [model |-> disk.model, scaler |-> disk.scaler, config |-> disk.config,
          success |-> TRUE]

----------------------------------------------------------------------------
(* The pipeline stages of predict_cough *)

Exc(t, m) == [type |-> t, msg |-> m]

Ok(v) == [ok |-> TRUE, value |-> v]
Raise(e) == [ok |-> FALSE, exc |-> e]

\* the signal a feature vector was computed from
SignalOf(X) == X.values[1].of.sig

\* scaler.transform(features.reshape(1, -1)): the input is validated
\* against the dimensionality the scaler was fitted with
scaler_transform(s, features) ==
    IF Len(features.values) # s.n_features_in
    THEN Raise(Exc("ValueError", "scaler: wrong number of features"))
    ELSE Ok([values |-> [i \in 1..Len(features.values) |->
                            [feature |-> features.values[i].feature,
                             stat |-> features.values[i].stat,
                             coef |-> features.values[i].coef,
                             of |-> features.values[i].of,
                             scaled |-> TRUE]]])

\* model.predict(features_scaled)[0]
model_predict(m, X) ==
    IF Len(X.values) # m.n_features_in
    THEN Raise(Exc("ValueError", "model: wrong number of features"))
    ELSE Ok(m.decide[SignalOf(X)])

\* model.predict_proba(features_scaled)[0]
model_predict_proba(m, X) ==
    IF Len(X.values) # m.n_features_in
    THEN Raise(Exc("ValueError", "model: wrong number of features"))
    ELSE Ok(m.proba[SignalOf(X)])

\* round(num / den) to the nearest integer, ties to even
RoundHalfEven(num, den) ==
    LET q == num \div den
        r == num % den
    IN  IF 2 * r < den THEN q
        ELSE IF 2 * r > den THEN q + 1
        ELSE IF q % 2 = 0 THEN q ELSE q + 1

\* round(float(p * 100), 2), in hundredths of a percent
Confidence(p) == RoundHalfEven(p * 100 * 100, PScale)

\* variant: the probability of the first class, prediction_proba[0]
ProbaAtFirst(prediction_proba, prediction) == prediction_proba[1]

\* prediction_proba[prediction]
ProbaAt(prediction_proba, prediction) == prediction_proba[prediction + 1]

\* variant: a missing label falls back to a default,
\* config['label_mapping'].get(str(prediction), "dry")
LabelAndConfidenceDefault(cfg, prediction, prediction_proba) ==
    IF cfg = None
    THEN Raise(Exc("TypeError", "'NoneType' object is not subscriptable"))
    ELSE IF prediction + 1 \notin DOMAIN prediction_proba
    THEN Raise(Exc("IndexError", "index out of bounds"))
    ELSE Ok([status |-> 200,
             predicted_cough_type |->
                 IF Str(prediction) \in DOMAIN cfg.label_mapping
                 THEN cfg.label_mapping[Str(prediction)] ELSE "dry",
             confidence_score |-> Confidence(ProbaAt(prediction_proba, prediction)),
             message |-> "Prediction completed successfully"])

\* lines 245-252: the label lookup, the confidence and the response
LabelAndConfidence(cfg, prediction, prediction_proba) ==
    IF cfg = None
    THEN Raise(Exc("TypeError", "'NoneType' object is not subscriptable"))
    ELSE IF Str(prediction) \notin DOMAIN cfg.label_mapping
    THEN Raise(Exc("KeyError", Str(prediction)))
    ELSE IF prediction + 1 \notin DOMAIN prediction_proba
    THEN Raise(Exc("IndexError", "index out of bounds"))
    ELSE Ok([status |-> 200,
             predicted_cough_type |-> cfg.label_mapping[Str(prediction)],
             confidence_score |-> Confidence(ProbaAt(prediction_proba, prediction)),
             message |-> "Prediction completed successfully"])

\* HTTPException(status_code, detail); str() of it is "<status>: <detail>"
HTTPException(status_code, detail) ==
    [type |-> "HTTPException", status_code |-> status_code, msg |-> detail]

ExcStr(e) ==
    IF e.type = "HTTPException" THEN <<e.status_code, e.msg>> ELSE <<e.msg>>

\* the response FastAPI sends for a raised HTTPException
ErrorResponse(status_code, detail) == [status |-> status_code, detail |-> detail]

\* line 218: the readiness check of predict_cough
NotLoaded(m, s, c) == m = None \/ s = None

\* variant: the handler answers with a default prediction
OuterExceptDefault(e) ==
    [status |-> 200, predicted_cough_type |-> "dry", confidence_score |-> 0,
     message |-> "Prediction completed successfully"]

\* lines 259-261: every exception leaving the outer try block
OuterExcept(e) == ErrorResponse(500, <<"Prediction failed: ">> \o ExcStr(e))

----------------------------------------------------------------------------
(* The temporary directory *)

\* a file records the request that created it (its identity: a name may be
\* reused once its file is gone)
Absent == [exists |-> FALSE, data |-> <<>>, creator |-> "nobody"]
EmptyFile(r) == [exists |-> TRUE, data |-> <<>>, creator |-> r]
FileWith(bytes, r) == [exists |-> TRUE, data |-> <<bytes>>, creator |-> r]

\* variant: the file is opened under a name whether or not it exists
AnyName(fs) == TempNames

\* tempfile.NamedTemporaryFile(delete=False) opens a name with O_EXCL:
\* only a name that does not exist yet
FreshNames(fs) == {n \in TempNames : ~fs[n].exists}

----------------------------------------------------------------------------
(* Requests *)

\* decoded request bodies: the stage of extract_audio_features that raises
\* on them ("none": the audio is fine) and the signal they carry.  Requests
\* carry audio that fails in the decoder or in the last transform; the
\* other transforms are exercised in SpecExtract.
ByteStrings ==
    {[fail |-> "none", sig |-> s] : s \in Sigs}
    \cup {[fail |-> f, sig |-> 0] : f \in {"load", Stages[Len(Stages)]}}

\* request.audio: a base64 text, valid or not
Audios == {[b64 |-> FALSE, bytes |-> None]}
          \cup {[b64 |-> TRUE, bytes |-> b] : b \in ByteStrings}

\* what the file system does to this request
IOFates == {"ok", "create_fails", "write_fails"}

EmptyFrame ==
    [audio_data |-> None, temp_file |-> None, temp_path |-> None,
     features |-> None, features_scaled |-> None, prediction |-> None,
     prediction_proba |-> None, exc |-> None, retval |-> None]

Init ==
    /\ model = None
    /\ scaler = None
    /\ config = None
    /\ started = FALSE
    /\ files = [n \in TempNames |-> Absent]
    /\ pc = [r \in Requests |-> "idle"]
    /\ request = [r \in Requests |-> None]
    /\ frame = [r \in Requests |-> EmptyFrame]
    /\ response = [r \in Requests |-> None]
    /\ health_response = None
    /\ call = None
    /\ ret = None

\* startup_event: load_models once, before any request is served
Startup(disk) ==
    /\ ~started
    /\ LET l == load_models(disk, [model |-> model, scaler |-> scaler,
                                   config |-> config])
       IN  /\ model' = l.model
           /\ scaler' = l.scaler
           /\ config' = l.config
    /\ started' = TRUE
    /\ UNCHANGED <<files, pc, request, frame, response, health_response,
                   call, ret>>

\* lines 197-205
HealthBody(m, s, c) ==
    [status |-> IF m # None THEN "healthy" ELSE "unhealthy",
     model_loaded |-> m # None,
     scaler_loaded |-> s # None,
     config_loaded |-> c # None]

Health ==
    /\ started
    /\ health_response' = HealthBody(model, scaler, config)
    /\ health_response' # health_response
    /\ UNCHANGED <<model, scaler, config, started, files, pc, request, frame,
                   response, call, ret>>

Globals == <<model, scaler, config, started, health_response, call, ret>>

\* a request arrives; line 218 answers 503 when the model or the scaler is
\* missing
Enter(r, a, io) ==
    /\ started
    /\ pc[r] = "idle"
    /\ request' = [request EXCEPT ![r] = [audio |-> a, io |-> io]]
    /\ IF NotLoaded(model, scaler, config)
       THEN /\ response' = [response EXCEPT ![r] =
                               ErrorResponse(503, <<"ML model not loaded">>)]
            /\ pc' = [pc EXCEPT ![r] = "done"]
       ELSE /\ pc' = [pc EXCEPT ![r] = "b64decode"]
            /\ UNCHANGED response
    /\ UNCHANGED <<Globals, files, frame>>

\* line 223
B64Decode(r) ==
    /\ pc[r] = "b64decode"
    /\ IF request[r].audio.b64
       THEN /\ frame' = [frame EXCEPT ![r].audio_data = request[r].audio.bytes]
            /\ pc' = [pc EXCEPT ![r] = "mktemp"]
       ELSE /\ frame' = [frame EXCEPT ![r].exc =
                            Exc("binascii.Error", "Incorrect padding")]
            /\ pc' = [pc EXCEPT ![r] = "except"]
    /\ UNCHANGED <<Globals, files, request, response>>

\* line 226: the file is created, empty, under a fresh name
MkTemp(r) ==
    /\ pc[r] = "mktemp"
    /\ IF request[r].io = "create_fails"
       THEN /\ frame' = [frame EXCEPT ![r].exc =
                            Exc("OSError", "cannot create temporary file")]
            /\ pc' = [pc EXCEPT ![r] = "except"]
            /\ UNCHANGED files
       ELSE \E n \in FreshNames(files) :
            /\ files' = [files EXCEPT ![n] = EmptyFile(r)]
            /\ frame' = [frame EXCEPT ![r].temp_file = [name |-> n]]
            /\ pc' = [pc EXCEPT ![r] = "write"]
    /\ UNCHANGED <<Globals, request, response>>

\* lines 227-228 and the exit of the with block.  A failed write leaves the
\* with block by an exception: the file is closed, not removed
\* (delete=False), and control is outside the inner try/finally
Write(r) ==
    /\ pc[r] = "write"
    /\ IF request[r].io = "write_fails"
       THEN /\ frame' = [frame EXCEPT ![r].exc =
                            Exc("OSError", "No space left on device")]
            /\ pc' = [pc EXCEPT ![r] = "except"]
            /\ UNCHANGED files
       ELSE /\ files' = [files EXCEPT ![frame[r].temp_file.name] =
                            FileWith(frame[r].audio_data, r)]
            /\ frame' = [frame EXCEPT ![r].temp_path = frame[r].temp_file]
            /\ pc' = [pc EXCEPT ![r] = "extract"]
    /\ UNCHANGED <<Globals, request, response>>

\* lines 232-235
Extract(r) ==
    /\ pc[r] = "extract"
    /\ LET features == extract_audio_features(files[frame[r].temp_path.name],
                           default_target_duration, default_sr)
       IN  IF features = None
           THEN /\ frame' = [frame EXCEPT ![r].exc =
                      HTTPException(400, "Failed to extract audio features")]
                /\ pc' = [pc EXCEPT ![r] = "finally"]
           ELSE /\ frame' = [frame EXCEPT ![r].features = features]
                /\ pc' = [pc EXCEPT ![r] = "scale"]
    /\ UNCHANGED <<Globals, files, request, response>>

\* line 238
Scale(r) ==
    /\ pc[r] = "scale"
    /\ LET t == scaler_transform(scaler, frame[r].features)
       IN  IF t.ok
           THEN /\ frame' = [frame EXCEPT ![r].features_scaled = t.value]
                /\ pc' = [pc EXCEPT ![r] = "predict"]
           ELSE /\ frame' = [frame EXCEPT ![r].exc = t.exc]
                /\ pc' = [pc EXCEPT ![r] = "finally"]
    /\ UNCHANGED <<Globals, files, request, response>>

\* lines 241-242
Predict(r) ==
    /\ pc[r] = "predict"
    /\ LET k == model_predict(model, frame[r].features_scaled)
           p == model_predict_proba(model, frame[r].features_scaled)
       IN  IF k.ok /\ p.ok
           THEN /\ frame' = [frame EXCEPT ![r].prediction = [value |-> k.value],
                                          ![r].prediction_proba = [values |-> p.value]]
                /\ pc' = [pc EXCEPT ![r] = "label"]
           ELSE /\ frame' = [frame EXCEPT ![r].exc =
                                IF k.ok THEN p.exc ELSE k.exc]
                /\ pc' = [pc EXCEPT ![r] = "finally"]
    /\ UNCHANGED <<Globals, files, request, response>>

\* lines 245-252
Label(r) ==
    /\ pc[r] = "label"
    /\ LET l == LabelAndConfidence(config, frame[r].prediction.value,
                                   frame[r].prediction_proba.values)
       IN  IF l.ok
           THEN frame' = [frame EXCEPT ![r].retval = l.value]
           ELSE frame' = [frame EXCEPT ![r].exc = l.exc]
    /\ pc' = [pc EXCEPT ![r] = "finally"]
    /\ UNCHANGED <<Globals, files, request, response>>

\* line 256: os.path.exists(temp_path)
FinallyExists(r) ==
    /\ pc[r] = "finally"
    /\ pc' = [pc EXCEPT ![r] = IF files[frame[r].temp_path.name].exists
                               THEN "unlink" ELSE "leave"]
    /\ UNCHANGED <<Globals, files, request, frame, response>>

\* line 257: os.unlink(temp_path); it raises when the file is gone
FinallyUnlink(r) ==
    /\ pc[r] = "unlink"
    /\ IF files[frame[r].temp_path.name].exists
       THEN /\ files' = [files EXCEPT ![frame[r].temp_path.name] = Absent]
            /\ UNCHANGED frame
       ELSE /\ frame' = [frame EXCEPT ![r].exc =
                            Exc("FileNotFoundError", "No such file or directory")]
            /\ UNCHANGED files
    /\ pc' = [pc EXCEPT ![r] = "leave"]
    /\ UNCHANGED <<Globals, request, response>>

\* the end of the finally block: the pending return value is returned, or
\* the pending exception goes on to the outer except clause
Leave(r) ==
    /\ pc[r] = "leave"
    /\ IF frame[r].exc = None
       THEN /\ response' = [response EXCEPT ![r] = frame[r].retval]
            /\ pc' = [pc EXCEPT ![r] = "done"]
       ELSE /\ pc' = [pc EXCEPT ![r] = "except"]
            /\ UNCHANGED response
    /\ UNCHANGED <<Globals, files, request, frame>>

\* lines 259-261
Except(r) ==
    /\ pc[r] = "except"
    /\ response' = [response EXCEPT ![r] = OuterExcept(frame[r].exc)]
    /\ pc' = [pc EXCEPT ![r] = "done"]
    /\ UNCHANGED <<Globals, files, request, frame>>

Next ==
    \/ \E disk \in Disks : Startup(disk)
    \/ Health
    \/ \E r \in Requests, a \in Audios, io \in IOFates : Enter(r, a, io)
    \/ \E r \in Requests : B64Decode(r)
    \/ \E r \in Requests : MkTemp(r)
    \/ \E r \in Requests : Write(r)
    \/ \E r \in Requests : Extract(r)
    \/ \E r \in Requests : Scale(r)
    \/ \E r \in Requests : Predict(r)
    \/ \E r \in Requests : Label(r)
    \/ \E r \in Requests : FinallyExists(r)
    \/ \E r \in Requests : FinallyUnlink(r)
    \/ \E r \in Requests : Leave(r)
    \/ \E r \in Requests : Except(r)

Spec == Init /\ [][Next]_vars

----------------------------------------------------------------------------
(* SpecExtract: extract_audio_features, one statement group per step *)

\* the main service is not running in the function specifications
Quiescent ==
    /\ model = None
    /\ scaler = None
    /\ config = None
    /\ started = FALSE
    /\ files = [n \in TempNames |-> Absent]
    /\ pc = [r \in Requests |-> "idle"]
    /\ request = [r \in Requests |-> None]
    /\ frame = [r \in Requests |-> EmptyFrame]
    /\ response = [r \in Requests |-> None]
    /\ health_response = None

Service == <<model, scaler, config, started, files, pc, request, frame,
             response, health_response>>

RECURSIVE SeqsUpTo(_, _)
SeqsUpTo(S, n) ==
    IF n = 0 THEN {<<>>}
    ELSE LET shorter == SeqsUpTo(S, n - 1)
         IN  shorter \cup {Append(q, x) : q \in shorter, x \in S}

\* what librosa.load returns for the file: a waveform of any length, or
\* None when it raises.  The duration cap of librosa.load is left out, so
\* that waveforms longer than the target reach the pad/trim statement.
Decodings == {None} \cup {[samples |-> q] : q \in SeqsUpTo(Samples, MaxLen)}

ExtractCalls ==
    [decoded : Decodings,
     target_duration : 0..MaxDuration,
     sr : 1..MaxSr,
     fail : {"none"} \cup StageSet]

InitExtract ==
    /\ Quiescent
    /\ call \in ExtractCalls
    /\ ret = [at |-> "load", audio |-> <<>>, features |-> <<>>, i |-> 0,
              result |-> None]

\* line 88, and the except clause when it raises
ExtLoad ==
    /\ ret.at = "load"
    /\ IF call.decoded = None
       THEN ret' = [ret EXCEPT !.at = "returned", !.result = None]
       ELSE ret' = [ret EXCEPT !.at = "pad", !.audio = call.decoded.samples]
    /\ UNCHANGED <<Service, call>>

\* lines 91-97
ExtPadOrTrim ==
    /\ ret.at = "pad"
    /\ ret' = [ret EXCEPT
                 !.at = "stage",
                 !.audio = PadOrTrim(ret.audio,
                              TargetLength(call.target_duration, call.sr)),
                 !.features = <<>>,
                 !.i = 1]
    /\ UNCHANGED <<Service, call>>

\* one transform section of lines 99-168, and the except clause when the
\* transform raises
ExtStage ==
    /\ ret.at = "stage"
    /\ ret.i <= Len(Stages)
    /\ IF call.fail = Stages[ret.i]
       THEN ret' = [ret EXCEPT !.at = "returned", !.result = None]
       ELSE ret' = [ret EXCEPT
                      !.features = ret.features \o Block(Stages[ret.i], ret.audio),
                      !.i = ret.i + 1]
    /\ UNCHANGED <<Service, call>>

\* line 170
ExtReturn ==
    /\ ret.at = "stage"
    /\ ret.i > Len(Stages)
    /\ ret' = [ret EXCEPT !.at = "returned",
                          !.result = [values |-> ret.features]]
    /\ UNCHANGED <<Service, call>>

NextExtract == ExtLoad \/ ExtPadOrTrim \/ ExtStage \/ ExtReturn

SpecExtract == InitExtract /\ [][NextExtract]_vars

----------------------------------------------------------------------------
(* SpecLabel: lines 245-252 applied to one classifier output *)

LabelCalls ==
    [prediction : {0, 1},
     prediction_proba : {<<PScale - x, x>> : x \in 0..PScale},
     config : ConfigArtifacts]

InitLabel ==
    /\ Quiescent
    /\ call \in LabelCalls
    /\ ret = None

LabelApply ==
    /\ ret = None
    /\ ret' = LabelAndConfidence(call.config, call.prediction,
                                 call.prediction_proba)
    /\ UNCHANGED <<Service, call>>

NextLabel == LabelApply

SpecLabel == InitLabel /\ [][NextLabel]_vars

----------------------------------------------------------------------------
(* Properties of the service (Spec) *)

Done(r) == pc[r] = "done"

AllLoaded == model # None /\ scaler # None /\ config # None

HasLabel(resp) == "predicted_cough_type" \in DOMAIN resp

\* C1: after a startup in which one of the three artifacts failed to load,
\* every request is answered at once with the not-ready error (503): no
\* request gets past the readiness check, none decodes audio, none creates
\* a temporary file.
C1_UnreadyFailsFast ==
    (started /\ ~AllLoaded) =>
        /\ \A r \in Requests :
              /\ pc[r] \in {"idle", "done"}
              /\ Done(r) => response[r].status = 503
              /\ frame[r] = EmptyFrame
        /\ \A n \in TempNames : ~files[n].exists

\* the pipeline stage at which a finished request failed
StageFailed(r) ==
    LET e == frame[r].exc
    IN  IF e.type = "binascii.Error" THEN "base64"
        ELSE IF e.type = "OSError" THEN "tempfile"
        ELSE IF e.type = "HTTPException"
        THEN IF request[r].audio.bytes.fail = "load"
             THEN "audio decode" ELSE "feature extraction"
        ELSE IF e.type = "ValueError"
        THEN IF frame[r].features_scaled = None
             THEN "scaling" ELSE "classification"
        ELSE "label mapping"

Failed(r) == Done(r) /\ frame[r].exc # None

\* C2: a failed request's response carries the kind of the stage that
\* failed: an input fault (audio decode, feature extraction) is answered
\* with a client error status, and two requests that failed at different
\* stages get different responses.
C2_StageKindPreserved ==
    /\ \A r \in Requests :
          (Failed(r) /\ StageFailed(r) \in {"audio decode", "feature extraction"})
              => response[r].status \in 400..499
    /\ \A r, q \in Requests :
          (Failed(r) /\ Failed(q) /\ StageFailed(r) # StageFailed(q))
              => response[r] # response[q]

\* every stage of the request r would succeed on its input
AllStagesSucceed(r) ==
    /\ request[r].audio.b64
    /\ request[r].io = "ok"
    /\ request[r].audio.bytes.fail = "none"
    /\ model # None /\ scaler # None /\ config # None
    /\ scaler.n_features_in = ExtractorWidth
    /\ model.n_features_in = ExtractorWidth
    /\ Str(model.decide[request[r].audio.bytes.sig]) \in DOMAIN config.label_mapping

\* C3: a finished request carries a label only if every stage succeeded in
\* it, the label then being the label map's entry for the predicted class;
\* every other finished request carries a failure status and no label.
C3_LabelOnlyOnFullSuccess ==
    \A r \in Requests : Done(r) =>
        IF AllStagesSucceed(r)
        THEN /\ response[r].status = 200
             /\ frame[r].features # None /\ frame[r].features_scaled # None
             /\ frame[r].prediction # None /\ frame[r].exc = None
             /\ response[r].predicted_cough_type =
                   config.label_mapping[Str(frame[r].prediction.value)]
        ELSE /\ response[r].status # 200
             /\ ~HasLabel(response[r])

\* a request was aborted because its predicted class has no label
C3_Witness ==
    \E r \in Requests :
        /\ Done(r)
        /\ frame[r].prediction # None
        /\ frame[r].exc # None /\ frame[r].exc.type = "KeyError"
        /\ ~HasLabel(response[r])

\* predict_cough run from start to end with nothing else running
RunAlone(a, io, r) ==
    IF NotLoaded(model, scaler, config)
    THEN ErrorResponse(503, <<"ML model not loaded">>)
    ELSE IF ~a.b64
    THEN OuterExcept(Exc("binascii.Error", "Incorrect padding"))
    ELSE IF io = "create_fails"
    THEN OuterExcept(Exc("OSError", "cannot create temporary file"))
    ELSE IF io = "write_fails"
    THEN OuterExcept(Exc("OSError", "No space left on device"))
    ELSE LET f == extract_audio_features(FileWith(a.bytes, r),
                      default_target_duration, default_sr)
         IN  IF f = None
             THEN OuterExcept(HTTPException(400, "Failed to extract audio features"))
             ELSE LET t == scaler_transform(scaler, f)
                  IN  IF ~t.ok THEN OuterExcept(t.exc)
                      ELSE LET k == model_predict(model, t.value)
                               p == model_predict_proba(model, t.value)
                           IN  IF ~k.ok THEN OuterExcept(k.exc)
                               ELSE LET l == LabelAndConfidence(config, k.value, p.value)
                                    IN  IF l.ok THEN l.value
                                        ELSE OuterExcept(l.exc)

\* the request r holds a temporary file it wrote and has not yet removed
HoldsFile(r) == pc[r] \in {"extract", "scale", "predict", "label", "finally", "unlink"}

\* C7: with the steps of two requests interleaved in any order, a request's
\* temporary file holds its own audio for as long as the request uses it,
\* its intermediate values are computed from its own audio, its response is
\* the one it gets when run alone, and no step of a request changes the
\* loaded model, scaler or configuration.
C7_RequestsIndependent ==
    /\ [](\A r \in Requests :
            /\ HoldsFile(r) =>
                  files[frame[r].temp_path.name] = FileWith(request[r].audio.bytes, r)
            /\ frame[r].features # None =>
                  SignalOf(frame[r].features) = request[r].audio.bytes.sig
            /\ frame[r].features_scaled # None =>
                  SignalOf(frame[r].features_scaled) = request[r].audio.bytes.sig
            /\ Done(r) => response[r] = RunAlone(request[r].audio, request[r].io, r))
    /\ [][started => (model' = model /\ scaler' = scaler /\ config' = config)]_vars

\* two requests with different audio hold their temporary files at once
C7_Witness ==
    \E r, q \in Requests :
        /\ r # q
        /\ pc[r] = "extract" /\ pc[q] = "unlink"
        /\ request[r].audio # request[q].audio
        /\ frame[r].temp_path # frame[q].temp_path

\* C8: GET /health answers "healthy" only if the classifier, the scaler and
\* the label-mapping configuration are all loaded.
C8_HealthyOnlyIfAllLoaded ==
    (health_response # None /\ health_response.status = "healthy") => AllLoaded

\* a finished request in which a configuration fault was detected: the
\* scaler rejected the vector's length, or the predicted class has no label
ConfigFault(r) ==
    /\ Failed(r)
    /\ \/ (frame[r].exc.type = "ValueError" /\ StageFailed(r) = "scaling")
       \/ frame[r].exc.type = "KeyError"

\* C9: a configuration fault detected during a request halts the service:
\* once one is reported the service is not ready, so the readiness check
\* rejects every later request.
C9_FaultHaltsService ==
    (\E r \in Requests : ConfigFault(r)) => NotLoaded(model, scaler, config)

\* C9 as amended: a configuration fault is reported to the request that met
\* it, as a status-500 failure without a label; the loaded artifacts stay
\* as they are, and a request arriving afterwards is admitted past the
\* readiness check.
C9_FaultIsPerRequest ==
    /\ [](\A r \in Requests : ConfigFault(r) =>
            /\ response[r].status = 500
            /\ ~HasLabel(response[r])
            /\ ~NotLoaded(model, scaler, config))
    /\ [][(\E r \in Requests : ConfigFault(r)) =>
            /\ model' = model /\ scaler' = scaler /\ config' = config
            /\ \A q \in Requests :
                  (pc[q] = "idle" /\ pc'[q] # "idle") => pc'[q] = "b64decode"]_vars

\* one request hit a missing label, another was served its prediction
C9_Witness ==
    \E r, q \in Requests :
        /\ ConfigFault(r)
        /\ Done(q) /\ response[q].status = 200

\* C10: once a request is finished the temporary file it created is gone,
\* whichever way the request ended, and a file is only ever removed by a
\* step of the request that created it.
C10_TempFileReleased ==
    /\ [](\A r \in Requests : Done(r) =>
            \A n \in TempNames : ~(files[n].exists /\ files[n].creator = r))
    /\ [][\A n \in TempNames :
            (files[n].exists /\ ~files'[n].exists) =>
                (pc[files[n].creator] = "unlink" /\ pc'[files[n].creator] = "leave")]_vars

----------------------------------------------------------------------------
(* Properties of extract_audio_features (SpecExtract) *)

Min(a, b) == IF a < b THEN a ELSE b

Normalised == ret.at \in {"stage", "returned"} /\ call.decoded # None

\* C4: after the pad/trim statement the waveform has exactly
\* target_duration * sr samples; its first min(L, N) samples are the first
\* min(L, N) samples of the decoded waveform, and the samples after the
\* decoded length are 0.
C4_PadOrTrim ==
    Normalised =>
        LET inp == call.decoded.samples
            N == call.target_duration * call.sr
        IN  /\ Len(ret.audio) = N
            /\ \A i \in 1..Min(Len(inp), N) : ret.audio[i] = inp[i]
            /\ \A i \in (Len(inp) + 1)..N : ret.audio[i] = 0

\* a waveform ending in a non-zero sample was padded
C4_Witness ==
    /\ Normalised
    /\ Len(call.decoded.samples) >= 1
    /\ call.decoded.samples[Len(call.decoded.samples)] # 0
    /\ Len(ret.audio) > Len(call.decoded.samples)

FourStats == <<"mean", "std", "min", "max">>

AggregateOrder == <<"spectral_centroid", "spectral_bandwidth",
                    "spectral_rolloff", "zcr", "chroma", "spectral_contrast",
                    "tonnetz", "rms">>

\* the layout of the feature vector v computed from the waveform w
Layout(v, w) ==
    /\ Len(v) = 85
    /\ \A s \in 1..4 : \A c \in 1..13 :
          v[13 * (s - 1) + c] = Feat("mfcc", FourStats[s], c, w)
    /\ \A j \in 1..8 : \A s \in 1..4 :
          v[52 + 4 * (j - 1) + s] = Feat(AggregateOrder[j], FourStats[s], 0, w)
    /\ v[85] = Feat("tempo", "value", 0, w)

\* C5: extract_audio_features returns None, or a vector of exactly 85
\* values in the fixed order: MFCC mean, std, min, max (13 each), then
\* mean, std, min, max of the eight aggregate transforms in order, then
\* the tempo; a call in which a transform raised returns None.
C5_VectorOrNothing ==
    ret.at = "returned" =>
        IF call.decoded = None \/ call.fail # "none"
        THEN ret.result = None
        ELSE /\ ret.result # None
             /\ Layout(ret.result.values, ret.audio)

\* a call returned a vector
C5_Witness ==
    /\ ret.at = "returned"
    /\ ret.result # None
    /\ Len(ret.result.values) = 85

----------------------------------------------------------------------------
(* Properties of the label derivation (SpecLabel) *)

Abs(x) == IF x < 0 THEN -x ELSE x

\* C6: a successful derivation reports the label map's entry for str(k)
\* and, as confidence, the probability of class k as a percentage rounded
\* to 2 decimals: within half a hundredth of p[k] * 100, between 0 and 100.
C6_LabelAndConfidence ==
    (ret # None /\ ret.ok) =>
        LET k == call.prediction
            pk == call.prediction_proba[k + 1]
            c == ret.value.confidence_score
        IN  /\ ret.value.predicted_cough_type = call.config.label_mapping[Str(k)]
            /\ 2 * Abs(c * PScale - pk * 100 * 100) <= PScale
            /\ 0 <= c /\ c <= 100 * 100

\* class 1 with probabilities 0.12 and 0.88 is reported as "wet", 88.0
C6_Witness ==
    /\ ret # None /\ ret.ok
    /\ call.prediction = 1
    /\ call.prediction_proba = <<LowP, HighP>>
    /\ call.config.label_mapping = [s \in {"0", "1"} |-> IF s = "0" THEN "dry" ELSE "wet"]
    /\ ret.value.predicted_cough_type = "wet"
    /\ ret.value.confidence_score = 88 * 100

====
